---- MODULE Spec2Model ----
(***************************************************************************)
(* Model of src/src/prototypical_loss.py: the squared-Euclidean distance   *)
(* primitive (euclidean_dist), the episodic scorer (prototypical_loss) and *)
(* the module that stores n_support and calls it (PrototypicalLoss).       *)
(*                                                                         *)
(* Tensors are modelled as torch holds them: a shape and the elements in   *)
(* row-major order.  Index tensors hold integers (0-based, as in the       *)
(* code).  Floating-point tensors hold fixed-point numbers, integers in    *)
(* units of 1/Scale; Scale is divisible by the squares of the support      *)
(* counts used, so means and squared distances of the small integer        *)
(* inputs are exact, and exp/log are computed to about 1/1000.             *)
(* The library is torch 0.4, the release the module's import of           *)
(* _assert_no_grad needs.  torch.unique(target) is called without          *)
(* sorted=True and returns the distinct labels in the iteration order of   *)
(* the std::unordered_set it collects them in, which depends on how the    *)
(* C++ library of the build sizes the set (libstdcxx); a tensor            *)
(* without elements has shape (0,), torch.stack raises on it, and size(k)  *)
(* beyond the rank raises RuntimeError.  Tensor.max is taken to return the *)
(* first of several maximal elements.                                      *)
(***************************************************************************)
EXTENDS Integers, Sequences, FiniteSets, TLC

VARIABLES
    n_support,      \* PrototypicalLoss.n_support
    input,          \* embeddings passed to the last forward call, as rows of integers
    target,         \* labels passed to the last forward call
    requires_grad,  \* target.requires_grad of that call
    result,         \* outcome of the last forward call
    calls,          \* number of forward calls made on the scorer
    first,          \* arguments and outcome of the scorer's first call
    history,        \* arguments, error, loss and accuracy of every call on the scorer
    libstdcxx,      \* how the C++ library torch was built with sizes a hash set
    x, y,           \* arguments of the last direct euclidean_dist call
    dist            \* outcome of that call

vars == <<n_support, input, target, requires_grad, result, calls, first, history, libstdcxx,
          x, y, dist>>

----------------------------------------------------------------------------
(* Bounds of the model.                                                    *)

MaxCells == 8       \* embedding components (rows x width) of an episode batch
MaxSupport == 2     \* n_support ranges over 1..MaxSupport
MaxOff == 3         \* rows of an episode batch that are off the origin
BatchRows == 7      \* rows of an arbitrary (possibly invalid) batch
CallRows == 4       \* rows of each class of a batch in a sequence of calls
MaxCalls == 3       \* forward calls on one scorer
DistRows == 2       \* rows of X and of Y given to euclidean_dist
RelabelRows == 12   \* rows of a batch that is relabelled

Dims == {1, 2}              \* embedding widths
LabelVals == {1, 3}         \* label values of an episode batch
RelabelVals == {0, 1, 13}   \* label values of a relabelled episode batch
ClassCounts == {2, 3}       \* classes of a relabelled episode batch
QueryCounts == {1, 2}       \* queries per class of a relabelled episode batch
BatchLabels == {0, 1, 3}    \* label values of an arbitrary batch
Vals == {0, 1, 2}           \* embedding components of width-1 rows
WideVals == {0, 2}          \* embedding components of wider rows
DistVals == {0, 2}          \* components of X and Y

----------------------------------------------------------------------------
(* Fixed-point numbers standing for torch's floats.                        *)

Scale == 2520 * 4

Fix(k) == k * Scale

FMul(a, b) == (a * b) \div Scale

RECURSIVE SumSeq(_)
SumSeq(s) == IF s = <<>> THEN 0 ELSE Head(s) + SumSeq(Tail(s))

RECURSIVE MaxSeq(_)
MaxSeq(s) == IF Len(s) = 1 THEN s[1]
             ELSE LET m == MaxSeq(Tail(s)) IN IF s[1] >= m THEN s[1] ELSE m

RECURSIVE Prod(_)
Prod(s) == IF s = <<>> THEN 1 ELSE Head(s) * Prod(Tail(s))

\* e^-1 in fixed point
EInv == (Scale * 1000) \div 2718

RECURSIVE PowEInv(_)
PowEInv(n) == IF n = 0 THEN Scale ELSE FMul(EInv, PowEInv(n - 1))

\* The k-th and later terms of the series of e^-f, 0 <= f < 1 (t is term k-1's size).
RECURSIVE ExpSeries(_, _, _, _)
ExpSeries(f, t, k, sign) ==
    IF k > 10 \/ t = 0 THEN 0
    ELSE LET tk == FMul(t, f) \div k
         IN  sign * tk + ExpSeries(f, tk, k + 1, -sign)

\* exp(-a) for a >= 0
ExpNeg(a) ==
    IF a \div Scale > 12 THEN 0
    ELSE FMul(PowEInv(a \div Scale), Scale + ExpSeries(a % Scale, Scale, 1, -1))

\* The series 2 (z + z^3/3 + z^5/5 + ...) of log((1+z)/(1-z)), p = z^k.
RECURSIVE LnSeries(_, _, _)
LnSeries(z, p, k) ==
    IF k > 15 \/ p = 0 THEN 0
    ELSE (2 * p) \div k + LnSeries(z, FMul(FMul(p, z), z), k + 2)

\* log(s) for s >= 1
Ln(s) == LET z == ((s - Scale) * Scale) \div (s + Scale) IN LnSeries(z, z, 1)

----------------------------------------------------------------------------
(* Tensors: [shape, data] with data in row-major order.                    *)

Tensor(shape, data) == [shape |-> shape \o <<>>, data |-> data \o <<>>]

Numel(shape) == Prod(shape)

Rank(t) == Len(t.shape)

\* tensor.size(k), k 0-based; callers check k < Rank(t) (else RuntimeError)
Size(t, k) == t.shape[k + 1]

\* A batch of integer rows as an N x D float tensor.
RECURSIVE Flatten(_)
Flatten(rows) == IF rows = <<>> THEN <<>> ELSE Head(rows) \o Flatten(Tail(rows))

FromRows(rows, d) ==
    Tensor(<<Len(rows), d>>, [i \in 1..(Len(rows) * d) |-> Fix(Flatten(rows)[i])])

\* Element (i, j) of a 2-D tensor, 0-based.
At2(t, i, j) == t.data[i * t.shape[2] + j + 1]

\* tensor.squeeze(): drop every dimension of size 1
Squeeze(t) == Tensor(SelectSeq(t.shape, LAMBDA n : n # 1), t.data)

\* torch.stack needs tensors of one shape
\* torch.stack(ts) does not raise: the tensors have one shape and are not empty
CanStack(ts) == \A i \in 1..Len(ts) : ts[i].shape = ts[1].shape /\ ts[i].data # <<>>

RECURSIVE ConcatData(_)
ConcatData(ts) == IF ts = <<>> THEN <<>> ELSE Head(ts).data \o ConcatData(Tail(ts))

Stack(ts) == Tensor(<<Len(ts)>> \o ts[1].shape, ConcatData(ts))

SubSeqFrom(s, k) == IF k > Len(s) THEN <<>> ELSE SubSeq(s, k, Len(s))

\* Row-major position <-> multi-index (both 0-based).
Unravel(p, shape) ==
    [k \in 1..Len(shape) |-> (p \div Prod(SubSeqFrom(shape, k + 1))) % shape[k]]

RECURSIVE RavelFrom(_, _, _)
RavelFrom(idx, shape, k) ==
    IF k > Len(shape) THEN 0
    ELSE idx[k] * Prod(SubSeqFrom(shape, k + 1)) + RavelFrom(idx, shape, k + 1)

Ravel(idx, shape) == RavelFrom(idx, shape, 1)

\* tensor.unsqueeze(k): a new dimension of size 1 at position k (0-based)
Unsqueeze(t, k) ==
    Tensor(SubSeq(t.shape, 1, k) \o <<1>> \o SubSeqFrom(t.shape, k + 1), t.data)

\* tensor.expand(shape): dimensions of size 1 are repeated
Expand(t, shape) ==
    Tensor(shape,
           [p \in 1..Numel(shape) |->
               LET idx == Unravel(p - 1, shape)
                   src == [k \in 1..Len(shape) |-> IF t.shape[k] = 1 THEN 0 ELSE idx[k]]
               IN  t.data[Ravel(src, t.shape) + 1]])

\* a - b and torch.pow(t, 2), elementwise on tensors of one shape
Sub(a, b) == Tensor(a.shape, [p \in 1..Len(a.data) |-> a.data[p] - b.data[p]])

\* Faulty variant: the difference is not squared
Pow2Unsquared(t) == t

Pow2(t) == Tensor(t.shape, [p \in 1..Len(t.data) |-> FMul(t.data[p], t.data[p])])

\* tensor.sum(2) of an n x m x d tensor
Sum2(t) ==
    LET n == t.shape[1]
        m == t.shape[2]
        d == t.shape[3]
    IN  Tensor(<<n, m>>,
               [p \in 1..(n * m) |-> SumSeq([k \in 1..d |-> t.data[(p - 1) * d + k]])])

NoTensor == Tensor(<<>>, <<>>)

Raised(e) == [err |-> e, t |-> NoTensor]

Returned(t) == [err |-> "", t |-> t]

----------------------------------------------------------------------------
(* euclidean_dist(x, y)                                                    *)

\* Faulty variant: the width of x is compared with the number of rows of y
euclidean_dist_rows(a, b) ==
    IF Rank(a) < 2 \/ Rank(b) < 2 THEN Raised("RuntimeError")
    ELSE LET n == Size(a, 0)
             m == Size(b, 0)
             d == Size(a, 1)
         IN  IF d # Size(b, 0) THEN Raised("Exception")
             ELSE LET xe == Expand(Unsqueeze(a, 1), <<n, m, d>>)
                      ye == Expand(Unsqueeze(b, 0), <<n, m, d>>)
                  IN  Returned(Sum2(Pow2(Sub(xe, ye))))

euclidean_dist(a, b) ==
    IF Rank(a) < 2 \/ Rank(b) < 2 THEN Raised("RuntimeError")
    ELSE LET n == Size(a, 0)
             m == Size(b, 0)
             d == Size(a, 1)
         IN  IF d # Size(b, 1) THEN Raised("Exception")
             ELSE LET xe == Expand(Unsqueeze(a, 1), <<n, m, d>>)
                      ye == Expand(Unsqueeze(b, 0), <<n, m, d>>)
                  IN  Returned(Sum2(Pow2(Sub(xe, ye))))

----------------------------------------------------------------------------
(* Tensor operations used by prototypical_loss.                             *)

\* The tensor without elements: it has one dimension, of size 0
Empty == Tensor(<<0>>, <<>>)

\* (target == c).nonzero(): the k x 1 tensor of the 0-based positions of c
NonZero(tgt, c) ==
    LET RECURSIVE Pos(_)
        Pos(i) == IF i > Len(tgt) THEN <<>>
                  ELSE (IF tgt[i] = c THEN <<i - 1>> ELSE <<>>) \o Pos(i + 1)
        idx == Pos(1)
    IN  IF idx = <<>> THEN Empty ELSE Tensor(<<Len(idx), 1>>, idx)

\* t[:n] and t[n:] on the first dimension of a k x 1 tensor
RowsUpTo(t, n) ==
    LET k == IF n < t.shape[1] THEN n ELSE t.shape[1]
    IN  IF k = 0 THEN Empty ELSE Tensor(<<k, 1>>, SubSeq(t.data, 1, k))

RowsFrom(t, n) ==
    LET k == IF n < t.shape[1] THEN t.shape[1] - n ELSE 0
    IN  IF k = 0 THEN Empty ELSE Tensor(<<k, 1>>, SubSeqFrom(t.data, n + 1))

\* torch.unique(target), unsorted: torch 0.4 collects the elements in a
\* std::unordered_set<int64_t> built from the range of the tensor's elements
\* and copies the set out in its iteration order.  The library sizes the set
\* in one of two ways: "ranged", the constructor takes as many buckets as the
\* range has elements need (earlier releases of libstdc++); "grown", the set
\* starts without buckets and grows when an insertion fills it (later ones).
Builds == {"ranged", "grown"}

\* The head of the library's table of primes
PrimeTable ==
    <<2, 3, 5, 7, 11, 13, 17, 19, 23, 29, 31, 37, 41, 43, 47, 53, 59, 61, 67, 71, 73, 79,
      83, 89, 97>>

\* _M_next_bkt(n): the least prime of the table that is >= n
BucketCount(n) ==
    PrimeTable[CHOOSE k \in 1..Len(PrimeTable) :
                   /\ PrimeTable[k] >= n
                   /\ \A j \in 1..(k - 1) : PrimeTable[j] < n]

\* The bucket of v among b: the hash of an int64 is its value as a size_t,
\* 2^64 + v for a negative v
Bucket(v, b) ==
    LET m16 == 65536 % b
        m32 == (m16 * m16) % b
        m64 == (m32 * m32) % b
    IN  IF v >= 0 THEN v % b ELSE (m64 + (v % b)) % b

\* A new node v on the node list of a set of b buckets: it goes to the head
\* of its bucket's nodes, or to the head of the list when its bucket is empty
HashInsert(list, v, b) ==
    LET same == {i \in 1..Len(list) : Bucket(list[i], b) = Bucket(v, b)}
    IN  IF \E i \in 1..Len(list) : list[i] = v THEN list
        ELSE IF same = {} THEN <<v>> \o list
        ELSE LET k == CHOOSE i \in same : \A j \in same : i <= j
             IN  SubSeq(list, 1, k - 1) \o <<v>> \o SubSeq(list, k, Len(list))

\* _M_need_rehash for one more element in a grown set of b buckets (0: none
\* yet) and cnt elements: the buckets the set has for the insertion
GrownBuckets(b, cnt) ==
    IF b = 0 THEN BucketCount(11 + 1)
    ELSE IF cnt + 1 > b
         THEN BucketCount(IF cnt + 2 > 2 * b THEN cnt + 2 ELSE 2 * b)
         ELSE b

\* _M_rehash: the nodes are taken in list order and linked into b buckets
RECURSIVE Rehash(_, _, _)
Rehash(list, b, done) ==
    IF list = <<>> THEN done ELSE Rehash(Tail(list), b, HashInsert(done, Head(list), b))

\* insert(tgt[i]), ..., insert(tgt[Len(tgt)]) on a set of nodes list in b buckets
RECURSIVE HashSetOrder(_, _, _, _, _)
HashSetOrder(tgt, i, list, b, lib) ==
    IF i > Len(tgt) THEN list
    ELSE IF \E k \in 1..Len(list) : list[k] = tgt[i]
         THEN HashSetOrder(tgt, i + 1, list, b, lib)
         ELSE LET nb == IF lib = "grown" THEN GrownBuckets(b, Len(list)) ELSE b
                  nodes == IF nb = b THEN list ELSE Rehash(list, nb, <<>>)
              IN  HashSetOrder(tgt, i + 1, HashInsert(nodes, tgt[i], nb), nb, lib)

Unique(tgt, lib) ==
    HashSetOrder(tgt, 1, <<>>, IF lib = "grown" THEN 0 ELSE BucketCount(Len(tgt)), lib)

\* inp[idx] for a 2-D inp: a 0-d index picks a row, a 1-D index gathers rows
IndexRows(inp, idx) ==
    LET d == inp.shape[2]
        Row(i) == [j \in 1..d |-> inp.data[i * d + j]]
    IN  IF Rank(idx) = 0 THEN Tensor(<<d>>, Row(idx.data[1]))
        ELSE Tensor(<<Len(idx.data), d>>,
                    Flatten([k \in 1..Len(idx.data) |-> Row(idx.data[k])]))

\* t.mean(0): the mean over the first dimension
Mean0(t) ==
    IF Rank(t) = 1 THEN Tensor(<<>>, <<SumSeq(t.data) \div t.shape[1]>>)
    ELSE LET k == t.shape[1]
             d == t.shape[2]
         IN  Tensor(<<d>>,
                    [j \in 1..d |-> SumSeq([i \in 1..k |-> t.data[(i - 1) * d + j]]) \div k])

\* t.view(shape), shape with at most one -1
ViewOk(t, shape) ==
    LET known == Prod(SelectSeq(shape, LAMBDA n : n # -1))
    IN  /\ \A k \in 1..Len(shape) : shape[k] >= -1
        /\ Len(SelectSeq(shape, LAMBDA n : n = -1)) <= 1
        /\ known > 0
        /\ Len(t.data) % known = 0
        /\ (\A k \in 1..Len(shape) : shape[k] # -1) => Len(t.data) = known

View(t, shape) ==
    LET known == Prod(SelectSeq(shape, LAMBDA n : n # -1))
    IN  Tensor([k \in 1..Len(shape) |->
                   IF shape[k] = -1 THEN Len(t.data) \div known ELSE shape[k]],
               t.data)

Neg(t) == Tensor(t.shape, [p \in 1..Len(t.data) |-> -t.data[p]])

\* F.log_softmax(t, dim=1) of a 2-D tensor: x - max - log(sum(exp(x - max))) per row
LogSoftmaxRow(row) ==
    LET m == MaxSeq(row)
        lse == Ln(SumSeq([j \in 1..Len(row) |-> ExpNeg(m - row[j])]))
    IN  [j \in 1..Len(row) |-> (row[j] - m) - lse]

LogSoftmax1(t) ==
    LET n == t.shape[1]
        m == t.shape[2]
    IN  Tensor(t.shape,
               Flatten([i \in 1..n |->
                           LogSoftmaxRow([j \in 1..m |-> t.data[(i - 1) * m + j]])]))

\* torch.arange(0, n)
Arange(n) == Tensor(<<n>>, [i \in 1..n |-> i - 1])

\* t.gather(2, index) on 3-D tensors: out[a][b][c] = t[a][b][index[a][b][c]]
Gather2(t, index) ==
    Tensor(index.shape,
           [p \in 1..Len(index.data) |->
               LET idx == Unravel(p - 1, index.shape)
               IN  t.data[Ravel(<<idx[1], idx[2], index.data[p]>>, t.shape) + 1]])

\* the index of the first maximal element of a row, 0-based
ArgMax(row) ==
    (CHOOSE j \in 1..Len(row) :
        /\ row[j] = MaxSeq(row)
        /\ \A i \in 1..(j - 1) : row[i] < row[j]) - 1

\* t.max(2)[1] of a 3-D tensor: the indices of the maxima over the last dimension
ArgMax2(t) ==
    LET n == t.shape[1] * t.shape[2]
        m == t.shape[3]
    IN  Tensor(<<t.shape[1], t.shape[2]>>,
               [p \in 1..n |-> ArgMax([j \in 1..m |-> t.data[(p - 1) * m + j]])])

\* Broadcasting of two shapes (aligned on the right)
PadLeft(shape, r) == [k \in 1..r |-> IF k <= r - Len(shape) THEN 1 ELSE shape[k - (r - Len(shape))]]

BroadcastShape(sa, sb) ==
    LET r == IF Len(sa) >= Len(sb) THEN Len(sa) ELSE Len(sb)
        pa == PadLeft(sa, r)
        pb == PadLeft(sb, r)
    IN  [k \in 1..r |-> IF pa[k] >= pb[k] THEN pa[k] ELSE pb[k]]

BroadcastTo(t, shape) == Expand(Tensor(PadLeft(t.shape, Len(shape)), t.data), shape)

\* torch.eq(a, b).float(): elementwise equality after broadcasting, as 0.0 / 1.0
EqFloat(a, b) ==
    LET sh == BroadcastShape(a.shape, b.shape)
        ea == BroadcastTo(a, sh)
        eb == BroadcastTo(b, sh)
    IN  Tensor(sh, [p \in 1..Numel(sh) |-> IF ea.data[p] = eb.data[p] THEN Fix(1) ELSE 0])

\* t.mean() of a non-empty float tensor
MeanAll(t) == SumSeq(t.data) \div Len(t.data)

----------------------------------------------------------------------------
(* prototypical_loss(input, target, n_support)                             *)
(* The outcome records every intermediate value computed before the call   *)
(* returned (err = "") or raised (err names the exception, stage the       *)
(* statement that raised it).                                              *)

NoOutcome ==
    [err |-> "", stage |-> "none", classes |-> <<>>, n_query |-> 0,
     support_idxs |-> <<>>, prototypes |-> NoTensor, query_idxs |-> NoTensor,
     dists |-> NoTensor, log_p_y |-> NoTensor, y_hat |-> NoTensor,
     loss_val |-> 0, acc_val |-> 0]

\* Faulty variant: the support rows are counted by the class label, [:c + 1]
supp_idxs_by_label(tgt, ns, c) == Squeeze(RowsUpTo(NonZero(tgt, c), c + 1))

\* supp_idxs(c)
supp_idxs(tgt, ns, c) == Squeeze(RowsUpTo(NonZero(tgt, c), ns))

\* input[i].mean(0) for one class's support indices
Prototype(inp, idx) == Mean0(IndexRows(inp, idx))

\* Faulty variant: the query rows are sliced like the support rows, [:n_support]
query_rows_head(tgt, ns, c) == RowsUpTo(NonZero(tgt, c), ns)

\* (cputargs == c).nonzero()[n_support:]
query_rows(tgt, ns, c) == RowsFrom(NonZero(tgt, c), ns)

\* target_inds after view(n_classes, 1, 1).expand(n_classes, n_query, 1)
TargetInds(n_classes, n_query) ==
    Expand(View(Arange(n_classes), <<n_classes, 1, 1>>), <<n_classes, n_query, 1>>)

\* Faulty variant: the mean log-probability is not negated
LossValUnnegated(log_p_y, target_inds) ==
    MeanAll(View(Squeeze(Gather2(log_p_y, target_inds)), <<-1>>))

\* -log_p_y.gather(2, target_inds).squeeze().view(-1).mean()
LossVal(log_p_y, target_inds) ==
    MeanAll(Neg(View(Squeeze(Gather2(log_p_y, target_inds)), <<-1>>)))

\* torch.eq(y_hat, target_inds.squeeze()).float().mean()
AccVal(y_hat, target_inds) == MeanAll(EqFloat(y_hat, Squeeze(target_inds)))

\* lib: the C++ library of the build
prototypical_loss(rows, tgt, ns, lib) ==
    LET inp == FromRows(rows, Len(rows[1]))
        classes == Unique(tgt, lib)
        n_classes == Len(classes)
        n_query == NonZero(tgt, classes[1]).shape[1] - ns
        support_idxs == [k \in 1..n_classes |-> supp_idxs(tgt, ns, classes[k])]
        protos == [k \in 1..n_classes |-> Prototype(inp, support_idxs[k])]
        s1 == [NoOutcome EXCEPT !.classes = classes, !.n_query = n_query,
                                !.support_idxs = support_idxs]
    IN
    IF ~CanStack(protos) THEN [s1 EXCEPT !.err = "RuntimeError", !.stage = "prototypes"]
    ELSE
    LET prototypes == Stack(protos)
        qrows == [k \in 1..n_classes |-> query_rows(tgt, ns, classes[k])]
        s2 == [s1 EXCEPT !.prototypes = prototypes]
    IN
    IF ~CanStack(qrows) THEN [s2 EXCEPT !.err = "RuntimeError", !.stage = "query_idxs"]
    ELSE
    LET query_idxs == View(Stack(qrows), <<-1>>)
        query_samples == IndexRows(inp, query_idxs)
        d == euclidean_dist(query_samples, prototypes)
        s3 == [s2 EXCEPT !.query_idxs = query_idxs]
    IN
    IF d.err # "" THEN [s3 EXCEPT !.err = d.err, !.stage = "dists"]
    ELSE
    LET dists == d.t
        lsm == LogSoftmax1(Neg(dists))
        s4 == [s3 EXCEPT !.dists = dists]
    IN
    IF ~ViewOk(lsm, <<n_classes, n_query, -1>>)
    THEN [s4 EXCEPT !.err = "RuntimeError", !.stage = "log_p_y"]
    ELSE
    LET log_p_y == View(lsm, <<n_classes, n_query, -1>>)
        target_inds == TargetInds(n_classes, n_query)
        y_hat == ArgMax2(log_p_y)
    IN  [s4 EXCEPT !.stage = "return", !.log_p_y = log_p_y, !.y_hat = y_hat,
                   !.loss_val = LossVal(log_p_y, target_inds),
                   !.acc_val = AccVal(y_hat, target_inds)]

----------------------------------------------------------------------------
(* PrototypicalLoss.forward(input, target)                                 *)

\* _assert_no_grad(target): raises when target.requires_grad
AssertNoGrad(rg) == ~rg

\* Faulty variant: the check of the labels is left out
forward_unchecked(rows, tgt, rg, ns, lib) == prototypical_loss(rows, tgt, ns, lib)

forward(rows, tgt, rg, ns, lib) ==
    IF ~AssertNoGrad(rg)
    THEN [NoOutcome EXCEPT !.err = "AssertionError", !.stage = "_assert_no_grad"]
    ELSE prototypical_loss(rows, tgt, ns, lib)

----------------------------------------------------------------------------
(* Inputs.                                                                 *)

Origin(d) == [j \in 1..d |-> 0]

\* n rows of width d, at most k of them off the origin
Points(d) == [1..d -> IF d = 1 THEN Vals ELSE WideVals]

\* n rows of width d: the rows in S are the points f gives, the others the origin
SparseRows(n, d, S, f) == [i \in 1..n |-> IF i \in S THEN f[i] ELSE Origin(d)]

\* The rows of each class of a label sequence
Count(tgt, c) == Cardinality({i \in 1..Len(tgt) : tgt[i] = c})

\* Every class has the same number of rows, at least ns + 1
Valid(tgt, ns) ==
    \A i \in 1..Len(tgt) :
        /\ Count(tgt, tgt[i]) = Count(tgt, tgt[1])
        /\ Count(tgt, tgt[i]) > ns

\* Label sequences of an episode: one class, or two classes of per rows each,
\* class by class or in turn
EpisodeTargets(n) ==
    {[i \in 1..n |-> c] : c \in LabelVals}
    \cup {[i \in 1..n |-> IF 2 * i <= n THEN a ELSE b] :
             <<a, b>> \in {p \in LabelVals \X LabelVals : p[1] # p[2] /\ n % 2 = 0}}
    \cup {[i \in 1..n |-> IF i % 2 = 1 THEN a ELSE b] :
             <<a, b>> \in {p \in LabelVals \X LabelVals : p[1] # p[2] /\ n % 2 = 0}}

\* The sequences of n different elements of S
Injections(n, S) == {q \in [1..n -> S] : \A i, j \in 1..n : q[i] = q[j] => i = j}

\* Labels of per rows for each class, class by class; labs[k] labels the k-th
BlockTarget(labs, per) ==
    [i \in 1..(Len(labs) * per) |-> labs[((i - 1) \div per) + 1]]

\* n rows of width 1: all at the origin; the second half at 2; or the first
\* two rows of the second half at 2 and the last row at 1
CallRowsOf(n, pat) ==
    LET h == n \div 2
    IN  [i \in 1..n |->
            IF pat = 1 THEN (IF i > h THEN <<2>> ELSE <<0>>)
            ELSE IF pat = 2
                 THEN (IF i \in {h + 1, h + 2} THEN <<2>> ELSE IF i = n THEN <<1>> ELSE <<0>>)
            ELSE <<0>>]

\* Label sequences of a batch in a sequence of calls: one class, or two in
\* either order, CallRows rows each
CallTargets ==
    {BlockTarget(labs, CallRows) : labs \in {<<1>>} \cup Injections(2, LabelVals)}

\* Batches of a sequence of calls: labels without gradient state with each of
\* the three kinds of rows, labels with gradient state with the last kind
CallBatches ==
    {<<CallRowsOf(Len(tgt), pat), tgt, FALSE>> : pat \in {0, 1, 2}, tgt \in CallTargets}
    \cup {<<CallRowsOf(Len(tgt), 2), tgt, TRUE>> : tgt \in CallTargets}

\* Arguments of euclidean_dist: n rows of width d
DistArgs ==
    UNION {[1..n -> [1..d -> DistVals]] : <<n, d>> \in (1..DistRows) \X Dims}

NoCall == [rows |-> <<>>, tgt |-> <<>>, rg |-> FALSE, out |-> NoOutcome]

NoDist == [err |-> "none", t |-> NoTensor]

----------------------------------------------------------------------------
(* The scorer and its calls.                                               *)

\* Faulty variant: every call counts itself in self.n_support
NSupportDrift(ns) == ns + 1

\* forward leaves self.n_support as __init__ set it
NSupportAfter(ns) == ns

\* forward(input, target) on the arguments at hand
Forward ==
    /\ result.stage = "none"
    /\ calls < MaxCalls
    /\ result' = forward(input, target, requires_grad, n_support, libstdcxx)
    /\ history' = history \cup {[rows |-> input, tgt |-> target, rg |-> requires_grad,
                                  err |-> result'.err, loss |-> result'.loss_val,
                                  acc |-> result'.acc_val]}
    /\ n_support' = NSupportAfter(n_support)
    /\ calls' = calls + 1
    /\ first' = IF calls = 0
                THEN [rows |-> input, tgt |-> target, rg |-> requires_grad, out |-> result']
                ELSE first
    /\ UNCHANGED <<input, target, requires_grad, libstdcxx, x, y, dist>>

\* The caller comes with the next batch
NextBatch ==
    /\ result.stage # "none"
    /\ calls < MaxCalls
    /\ \E b \in CallBatches :
          /\ input' = b[1]
          /\ target' = b[2]
          /\ requires_grad' = b[3]
    /\ result' = NoOutcome
    /\ UNCHANGED <<n_support, calls, first, history, libstdcxx, x, y, dist>>

\* euclidean_dist(x, y) called directly
DistCall ==
    /\ dist.err = "none"
    /\ dist' = euclidean_dist(FromRows(x, Len(x[1])), FromRows(y, Len(y[1])))
    /\ UNCHANGED <<n_support, input, target, requires_grad, result, calls, first,
                   history, libstdcxx, x, y>>

ScorerInit(ns, rows, tgt, rg) ==
    /\ n_support = ns
    /\ input = rows
    /\ target = tgt
    /\ requires_grad = rg
    /\ result = NoOutcome
    /\ calls = 0
    /\ first = NoCall
    /\ history = {}
    /\ libstdcxx \in Builds
    /\ x = <<<<0>>>>
    /\ y = <<<<0>>>>
    /\ dist = NoDist

\* One call on a valid episode: at most MaxCells components, at most MaxOff rows
\* off the origin
InitEpisode ==
    \E ns \in 1..MaxSupport, n \in 2..MaxCells, d \in Dims :
        /\ n * d <= MaxCells
        /\ \E S \in SUBSET (1..n) :
              /\ Cardinality(S) <= MaxOff
              /\ \E f \in [S -> Points(d) \ {Origin(d)}], tgt \in EpisodeTargets(n) :
                    /\ Valid(tgt, ns)
                    /\ ScorerInit(ns, SparseRows(n, d, S, f), tgt, FALSE)

SpecEpisode == InitEpisode /\ [][Forward]_vars

\* One call on an arbitrary batch: any label sequence, every row the same point
\* of width 1
InitBatch ==
    \E ns \in 1..MaxSupport, n \in 1..BatchRows, v \in {0, 1} :
        \E tgt \in [1..n -> BatchLabels] :
            ScorerInit(ns, [i \in 1..n |-> <<v>>], tgt, FALSE)

SpecBatch == InitBatch /\ [][Forward]_vars

\* One call on a valid episode of two or three classes, the rows class by
\* class, the labels values of RelabelVals in increasing order (every other
\* labelling is a relabelling of one of these), at most RelabelRows rows, at
\* most MaxOff of them off the origin
InitRelabel ==
    \E ns \in 1..MaxSupport, nq \in QueryCounts, c \in ClassCounts :
        \E labs \in Injections(c, RelabelVals), S \in SUBSET (1..(c * (ns + nq))) :
            /\ \A i \in 1..(c - 1) : labs[i] < labs[i + 1]
            /\ c * (ns + nq) <= RelabelRows
            /\ Cardinality(S) <= MaxOff
            /\ ScorerInit(ns, [i \in 1..(c * (ns + nq)) |-> IF i \in S THEN <<2>> ELSE <<0>>],
                          BlockTarget(labs, ns + nq), FALSE)

SpecRelabel == InitRelabel /\ [][Forward]_vars

\* A sequence of calls on one scorer
InitCalls ==
    \E ns \in 1..MaxSupport : \E b \in CallBatches : ScorerInit(ns, b[1], b[2], b[3])

NextCalls == Forward \/ NextBatch

SpecCalls == InitCalls /\ [][NextCalls]_vars

\* Direct calls of the distance primitive
InitDist ==
    /\ x \in DistArgs
    /\ y \in DistArgs
    /\ dist = NoDist
    /\ n_support = 1
    /\ input = <<<<0>>>>
    /\ target = <<1>>
    /\ requires_grad = FALSE
    /\ result = NoOutcome
    /\ calls = 0
    /\ first = NoCall
    /\ history = {}
    /\ libstdcxx \in Builds

SpecDist == InitDist /\ [][DistCall]_vars

Init == InitCalls

Next == NextCalls

Spec == SpecCalls

----------------------------------------------------------------------------
(* Properties of euclidean_dist (SpecDist).                                *)

\* The squared distance of two integer rows, from the definition
SqDist(u, v) == SumSeq([k \in 1..Len(u) |-> (u[k] - v[k]) * (u[k] - v[k])])

\* C4: a call of euclidean_dist on X (n rows) and Y (m rows) of one width
\* returns the n x m matrix with D[i][j] = sum_k (X[i][k] - Y[j][k])^2 and
\* leaves X and Y as they were.
C4_DistanceMatrix ==
    [][(dist'.err = "" /\ Len(x[1]) = Len(y[1])) =>
          /\ x' = x
          /\ y' = y
          /\ dist'.t.shape = <<Len(x), Len(y)>>
          /\ \A i \in 1..Len(x) : \A j \in 1..Len(y) :
                At2(dist'.t, i - 1, j - 1) = Fix(SqDist(x[i], y[j]))]_vars

C4_Witness ==
    /\ dist.err = ""
    /\ Len(x) = 2 /\ Len(y) = 2 /\ Len(x[1]) = 2
    /\ dist.t.data = <<Fix(0), Fix(8), Fix(4), Fix(4)>>

\* C5: a call of euclidean_dist ends in the dimension-check exception, with no
\* distance matrix, exactly when the rows of X and of Y differ in width.
C5_DimensionMismatch ==
    dist.err # "none" =>
        /\ (Len(x[1]) # Len(y[1])) <=> (dist.err = "Exception")
        /\ (dist.err = "Exception") => (dist.t = NoTensor)
        /\ (Len(x[1]) = Len(y[1])) => (dist.err = "")

C5_Witness ==
    /\ dist.err = "Exception"
    /\ Len(x[1]) = 2 /\ Len(y[1]) = 1 /\ Len(x) = 2 /\ Len(y) = 2

----------------------------------------------------------------------------
(* Properties of the scorer over a sequence of calls (SpecCalls).          *)

\* C8: a call whose labels require gradients ends in the error of
\* _assert_no_grad, and no class, prototype, index or distance was computed.
C8_GradLabelsRejected ==
    (result.stage # "none" /\ requires_grad) =>
        /\ result.err = "AssertionError"
        /\ result.stage = "_assert_no_grad"
        /\ result.classes = <<>>
        /\ result.support_idxs = <<>>
        /\ result.prototypes = NoTensor
        /\ result.query_idxs = NoTensor
        /\ result.dists = NoTensor

\* a batch that a call without gradient state scores: two classes, 2 supports
\* and 2 queries each
C8_Witness ==
    /\ requires_grad
    /\ result.err = "AssertionError"
    /\ n_support = 2
    /\ target = <<1, 1, 1, 1, 3, 3, 3, 3>>
    /\ input = CallRowsOf(8, 2)

----------------------------------------------------------------------------
(* Properties of one call on an arbitrary batch (SpecBatch).               *)

\* 0-based row indices with label c
PosOf(tgt, c) == {i - 1 : i \in {j \in 1..Len(tgt) : tgt[j] = c}}

\* The elements of a set of integers in ascending order
Asc(S) ==
    [k \in 1..Cardinality(S) |-> CHOOSE v \in S : Cardinality({w \in S : w < v}) = k - 1]

\* The k smallest elements of a set of integers
FirstK(S, k) == {v \in S : Cardinality({w \in S : w < v}) < k}

SetOf(seq) == {seq[i] : i \in 1..Len(seq)}

RECURSIVE ConcatQueries(_, _, _, _)
ConcatQueries(tgt, cls, ns, k) ==
    IF k > Len(cls) THEN <<>>
    ELSE Asc(PosOf(tgt, cls[k]) \ FirstK(PosOf(tgt, cls[k]), ns))
         \o ConcatQueries(tgt, cls, ns, k + 1)

\* The partition of the rows of the batch into support and query indices, for
\* the classes in the order cls
PartitionFor(cls) ==
    LET nq == Count(target, cls[1]) - n_support
    IN  /\ result.classes = cls
        /\ result.n_query = nq
        /\ Len(result.support_idxs) = Len(cls)
        /\ \A k \in 1..Len(cls) :
              result.support_idxs[k].data = Asc(FirstK(PosOf(target, cls[k]), n_support))
        /\ result.query_idxs.shape = <<Len(cls) * nq>>
        /\ result.query_idxs.data = ConcatQueries(target, cls, n_support, 1)
        /\ \A k \in 1..Len(cls) :
              SetOf(result.support_idxs[k].data) \cap SetOf(result.query_idxs.data) = {}

\* C3 (as claimed): on a batch whose classes all have the same number of rows,
\* more than n_support, the classes are the distinct labels in ascending order,
\* the support indices of a class are its first n_support rows in batch order,
\* the query indices the remaining ones, and the combined query list is their
\* concatenation in ascending class order, of length C * n_query, disjoint
\* from the support indices.
C3_SupportQueryPartition ==
    (result.stage # "none" /\ Valid(target, n_support)) =>
        PartitionFor(Asc(SetOf(target)))

\* Rows of class c after its first ns rows
Remaining(tgt, ns, c) == IF Count(tgt, c) > ns THEN Count(tgt, c) - ns ELSE 0

UnequalQueries(tgt, ns) ==
    \E i, j \in 1..Len(tgt) : Remaining(tgt, ns, tgt[i]) # Remaining(tgt, ns, tgt[j])

\* C10: when two classes have different numbers of rows after their first
\* n_support rows, the call ends in an error and returns no loss or accuracy.
C10_UnequalQueriesRaise ==
    (result.stage # "none" /\ UnequalQueries(target, n_support)) =>
        /\ result.err # ""
        /\ result.stage # "return"
        /\ result.log_p_y = NoTensor

\* every class has more than n_support rows, the prototypes were stacked, and
\* stacking the query indices raised
C10_Witness ==
    /\ UnequalQueries(target, n_support)
    /\ \A i \in 1..Len(target) : Count(target, target[i]) > n_support
    /\ result.err = "RuntimeError"
    /\ result.stage = "query_idxs"
    /\ n_support = 2

----------------------------------------------------------------------------
(* Properties of one call on a valid episode (SpecEpisode).                *)

\* ns * ns * (squared distance of row q to the mean of the first ns rows of
\* class c), in integers; q is a 0-based row index
SupportSum(rows, tgt, ns, c, j) ==
    LET sup == Asc(FirstK(PosOf(tgt, c), ns))
    IN  SumSeq([i \in 1..Len(sup) |-> rows[sup[i] + 1][j]])

ScaledDist(rows, tgt, ns, q, c) ==
    SumSeq([j \in 1..Len(rows[1]) |->
               LET diff == ns * rows[q + 1][j] - SupportSum(rows, tgt, ns, c, j)
               IN  diff * diff])

\* The classes whose prototype is nearest to row q
Nearest(rows, tgt, ns, q) ==
    {c \in SetOf(tgt) :
        \A e \in SetOf(tgt) : ScaledDist(rows, tgt, ns, q, c) <= ScaledDist(rows, tgt, ns, q, e)}

\* The query rows of the batch
QueryRows(tgt, ns) ==
    UNION {PosOf(tgt, c) \ FirstK(PosOf(tgt, c), ns) : c \in SetOf(tgt)}

\* The predicted class of row q: the first, in the order cls of the classes,
\* of the classes of maximal log-probability
Predicted(rows, tgt, ns, cls, q) ==
    cls[CHOOSE k \in 1..Len(cls) :
            /\ cls[k] \in Nearest(rows, tgt, ns, q)
            /\ \A i \in 1..(k - 1) : cls[i] \notin Nearest(rows, tgt, ns, q)]

Correct(rows, tgt, ns, cls) ==
    Cardinality({q \in QueryRows(tgt, ns) : Predicted(rows, tgt, ns, cls, q) = tgt[q + 1]})

\* C1 (as claimed): whenever score returns on a valid batch, the accuracy is
\* the number of queries whose predicted class is their own, divided by
\* C * n_query.
C1_AccuracyIsFractionCorrect ==
    (result.stage = "return" /\ Valid(target, n_support)) =>
        result.acc_val =
            Fix(Correct(input, target, n_support, result.classes))
                \div Cardinality(QueryRows(target, n_support))

\* C2 (as claimed): on a valid batch the prototypes are a C x D array, row k
\* the componentwise mean of the support rows of the k-th class in ascending
\* label order, for every n_support >= 1.
C2_PrototypesAreMeans ==
    (result.stage # "none" /\ Valid(target, n_support)) =>
        LET cls == Asc(SetOf(target))
            d == Len(input[1])
        IN  /\ result.prototypes.shape = <<Len(cls), d>>
            /\ \A k \in 1..Len(cls) : \A j \in 1..d :
                  result.prototypes.data[(k - 1) * d + j]
                      = Fix(SupportSum(input, target, n_support, cls[k], j)) \div n_support

\* C7: the loss returned on a valid batch is >= 0 and the accuracy is in [0, 1].
C7_LossAndAccuracyRange ==
    (result.stage = "return" /\ Valid(target, n_support)) =>
        /\ result.loss_val >= 0
        /\ result.acc_val >= 0
        /\ result.acc_val <= Fix(1)

\* two classes, two queries each, some but not all predicted right
C7_Witness ==
    /\ result.stage = "return"
    /\ Len(result.classes) = 2
    /\ result.n_query = 2
    /\ result.loss_val > 0
    /\ result.acc_val > 0
    /\ result.acc_val < Fix(1)

\* Relabellings: one-to-one maps of the labels of the batch into RelabelVals
Relabellings(tgt) ==
    {p \in [SetOf(tgt) -> RelabelVals] : \A a, b \in SetOf(tgt) : p[a] = p[b] => a = b}

Relabel(tgt, p) == [i \in 1..Len(tgt) |-> p[tgt[i]]]

SameLoss(r1, r2) ==
    /\ r1.err = r2.err
    /\ r1.loss_val = r2.loss_val

SameScore(r1, r2) ==
    /\ SameLoss(r1, r2)
    /\ r1.acc_val = r2.acc_val

\* The outcome of the call on the batch relabelled by p, rows and embeddings
\* unchanged
Relabelled(p) == forward(input, Relabel(target, p), requires_grad, n_support, libstdcxx)

\* No query row has two or more nearest prototypes
NoTie(rows, tgt, ns) ==
    \A q \in QueryRows(tgt, ns) : Cardinality(Nearest(rows, tgt, ns, q)) = 1

\* C6 (as claimed): the call on the batch relabelled by any one-to-one map,
\* rows and embeddings unchanged, has the same loss and accuracy, ties included.
C6_RelabelInvariant ==
    result.stage # "none" =>
        \A p \in Relabellings(target) : SameScore(result, Relabelled(p))

\* C6 (amended): the call on the relabelled batch ends alike and has the same
\* loss, ties included, and the same accuracy when no query has two or more
\* nearest prototypes.
C6_RelabelInvariantNoTie ==
    result.stage # "none" =>
        \A p \in Relabellings(target) :
            LET relabelled == Relabelled(p)
            IN  /\ SameLoss(result, relabelled)
                /\ NoTie(input, target, n_support) => SameScore(result, relabelled)

\* three classes of two supports and two queries each, no ties, the classes in
\* another order after a relabelling, one class's queries predicted right
C6_Witness ==
    /\ result.stage = "return"
    /\ target = BlockTarget(<<0, 1, 13>>, 4)
    /\ result.classes = <<1, 13, 0>>
    /\ Unique(BlockTarget(<<0, 1, 2>>, 4), libstdcxx) = <<2, 1, 0>>
    /\ NoTie(input, target, n_support)
    /\ result.acc_val = Fix(1) \div 3
    /\ result.loss_val > 0

====
